---------------------------- MODULE Spec2Model ----------------------------
(***************************************************************************)
(* Model of src/main.py (supervision_de_notas): the Streamlit handler that *)
(* audits, for a batch of Canvas course ids, whether every (student,       *)
(* assignment) cell was graded inside the 9 day grading window.            *)
(*                                                                         *)
(* Time is counted in whole hours since an arbitrary UTC midnight.  A      *)
(* Python None is the empty sequence <<>> for optional values (a           *)
(* submission, a score) and the string "None" for optional strings.        *)
(***************************************************************************)
EXTENDS Integers, Sequences, FiniteSets, TLC

VARIABLES
    \* ---- the batch handler (if st.button ...) and procesar_curso ----
    raw_input,            \* the course ids typed in the text area, tokenised
    pc,                   \* position of the handler
    clock,                \* the wall clock (UTC hours)
    idx,                  \* position of the for-loop over course_ids
    resumen,              \* the cross-course summary rows
    st_errors,            \* st.error messages shown so far
    st_warnings,          \* st.warning messages shown so far
    course_info,          \* course fetched for the current cid
    sub_account_info,     \* parent account fetched for the current cid
    students,             \* procesar_curso: user_id -> display name
    assignments,          \* procesar_curso: the fetched assignment list
    k,                    \* procesar_curso: position in `for assignment in`
    now_utc,              \* procesar_curso: datetime.now(timezone.utc)
    now_local_date,       \* procesar_curso: datetime.now(tz_local).date()
    processed_assignments,
    asignaciones_info,    \* the assignment timeline
    results,              \* user_id -> (assignment name -> cell text)
    ret,                  \* what procesar_curso returned to the handler
    \* ---- one cell, re-classified as time passes (classifier harness) ----
    c_now, c_due, c_sub, c_label, c_info

batchVars == <<raw_input, pc, clock, idx, resumen, st_errors, st_warnings,
               course_info, sub_account_info, students, assignments, k,
               now_utc, now_local_date, processed_assignments,
               asignaciones_info, results, ret>>
cellVars == <<c_now, c_due, c_sub, c_label, c_info>>
vars == <<batchVars, cellVars>>

-----------------------------------------------------------------------------
(* Bounds of the model *)

\* longest input sequence of course ids
MaxCourses == 2
\* longest time (hours) one blocking fetch takes
MaxDelay == 1
\* hours the clock may advance in total during one batch
MaxElapsed == 2
\* hours the classifier harness runs on after the grading deadline
CellTail == 30

(* Program constants *)

\* timedelta(days=9)
GraceDays == 9
HoursPerDay == 24
GraceHours == GraceDays * HoursPerDay

-----------------------------------------------------------------------------
(* Time Normalizer *)

\* The instant (UTC hour) at which America/Santiago leaves daylight saving
\* time inside the modelled horizon: local time is UTC-3 before, UTC-4 from it.
DstEnd == 11 * HoursPerDay + 3

\* pytz.timezone("America/Santiago"): utc offset in force at instant t
UtcOffset(t) == IF t < DstEnd THEN -3 ELSE -4

\* x.astimezone(tz_local): the local wall-clock hour of instant t
astimezone(t) == t + UtcOffset(t)

\* .date() of a wall-clock hour: the day number
date(wall) == wall \div HoursPerDay

\* A wire timestamp is [kind, wall, offset]: kind "null" (JSON null), "iso"
\* (wall-clock hour `wall` written with utc offset `offset`; the suffix Z is
\* offset 0) or "malformed".
NullTs == [kind |-> "null", wall |-> 0, offset |-> 0]
BadTs == [kind |-> "malformed", wall |-> 0, offset |-> 0]
IsoTs(wall, offset) == [kind |-> "iso", wall |-> wall, offset |-> offset]
Zulu(t) == IsoTs(t, 0)

\* datetime.fromisoformat(due_at.replace("Z", "+00:00")): the instant, or a
\* ValueError
fromisoformat(ts) ==
    IF ts.kind = "iso"
    THEN [raised |-> FALSE, value |-> ts.wall - ts.offset]
    ELSE [raised |-> TRUE, value |-> 0]

\* due_date_utc + timedelta(days=9)
deadline_of(due_date_utc) == due_date_utc + GraceHours

-----------------------------------------------------------------------------
(* Submission Classifier *)

\* truthiness of an optional string: None and "" are falsy
Truthy(s) == s # "None" /\ s # ""

\* submission.get(key) on an optional submission
NoSubmission == <<>>

es_entrega_real(submission) ==
    IF submission = NoSubmission
    THEN FALSE
    ELSE LET w_state == submission[1].workflow_state
             submitted_at == submission[1].submitted_at
         IN  (w_state = "submitted") \/ (submitted_at # "None")

\* int(float(score)): scores are carried in tenths; int() truncates toward 0
IntOfFloat(tenths) ==
    IF tenths >= 0 THEN tenths \div 10 ELSE -((-tenths) \div 10)

\* text_celda with the grade looked at before the window: a graded cell of an
\* assignment that has not opened yet shows its grade
text_celda_grade_first(now, due_date_utc, deadline_utc, submission) ==
    LET delivered == es_entrega_real(submission)
        graded_at == IF submission # NoSubmission
                     THEN submission[1].graded_at ELSE "None"
    IN  IF Truthy(graded_at)
        THEN LET score == submission[1].score
             IN  IF score = <<>>
                 THEN "Calificada pero sin nota"
                 ELSE IF submission[1].grade_matches_current_submission = "False"
                 THEN "Nota no coincide"
                 ELSE ToString(IntOfFloat(score[1]))
        ELSE IF now < due_date_utc
        THEN "No iniciado"
        ELSE IF now <= deadline_utc
             THEN IF delivered THEN "Entregado y en plazo"
                               ELSE "No entregado pero en plazo"
             ELSE IF delivered THEN "No calificado en plazo"
                               ELSE "No entrego nada"

\* text_celda with the deadline instant itself counted as late (< for <=)
text_celda_strict_deadline(now, due_date_utc, deadline_utc, submission) ==
    LET delivered == es_entrega_real(submission)
        graded_at == IF submission # NoSubmission
                     THEN submission[1].graded_at ELSE "None"
    IN  IF now < due_date_utc
        THEN "No iniciado"
        ELSE IF Truthy(graded_at)
        THEN LET score == submission[1].score
             IN  IF score = <<>>
                 THEN "Calificada pero sin nota"
                 ELSE IF submission[1].grade_matches_current_submission = "False"
                 THEN "Nota no coincide"
                 ELSE ToString(IntOfFloat(score[1]))
        ELSE IF now < deadline_utc
             THEN IF delivered THEN "Entregado y en plazo"
                               ELSE "No entregado pero en plazo"
             ELSE IF delivered THEN "No calificado en plazo"
                               ELSE "No entrego nada"

\* lines 172-203: the text of one cell
text_celda(now, due_date_utc, deadline_utc, submission) ==
    LET delivered == es_entrega_real(submission)
        graded_at == IF submission # NoSubmission
                     THEN submission[1].graded_at ELSE "None"
    IN  IF now < due_date_utc
        THEN "No iniciado"
        ELSE IF Truthy(graded_at)
        THEN LET score == submission[1].score
             IN  IF score = <<>>
                 THEN "Calificada pero sin nota"
                 ELSE IF submission[1].grade_matches_current_submission = "False"
                 THEN "Nota no coincide"
                 ELSE ToString(IntOfFloat(score[1]))
        ELSE IF now <= deadline_utc
             THEN IF delivered THEN "Entregado y en plazo"
                               ELSE "No entregado pero en plazo"
             ELSE IF delivered THEN "No calificado en plazo"
                               ELSE "No entrego nada"

\* estado_info with the deadline instant itself counted as overdue (>= for >)
estado_info_overdue_at_deadline(now, due_date_utc, deadline_utc) ==
    IF due_date_utc > now
    THEN "No iniciado"
    ELSE IF now >= deadline_utc THEN "Plazo vencido" ELSE "En plazo"

\* lines 142-148: the timeline status of an assignment
estado_info(now, due_date_utc, deadline_utc) ==
    IF due_date_utc > now
    THEN "No iniciado"
    ELSE IF now > deadline_utc THEN "Plazo vencido" ELSE "En plazo"

\* lines 150-152: days between today's local date and the deadline's
dias_atraso(local_date, deadline_utc) ==
    LET d == local_date - date(astimezone(deadline_utc))
    IN  IF d < 0 THEN 0 ELSE d

\* lines 155-161: the timeline row of an assignment
timeline_row(asg_name, now, local_date, due_date_utc) ==
    LET deadline_utc == deadline_of(due_date_utc)
        estado == estado_info(now, due_date_utc, deadline_utc)
    IN  [Tarea |-> asg_name,
         Fecha_de_entrega |-> date(astimezone(due_date_utc)),
         Plazo_de_calificacion |-> date(astimezone(deadline_utc)),
         Dias_de_atraso |-> IF estado = "Plazo vencido"
                            THEN ToString(dias_atraso(local_date, deadline_utc))
                            ELSE "No aplica",
         Estado |-> estado]


-----------------------------------------------------------------------------
(* Classifier harness: one cell and its assignment's timeline row, computed *)
(* by the operators above and recomputed as the clock advances.             *)

\* what a Canvas submission object can say (score in tenths of a point)
WorkflowStates == {"unsubmitted", "submitted", "graded"}
OptionalTimestamps == {"None", "2024-01-05T10:00:00Z"}
Scores == {<<>>, <<179>>, <<-5>>}
GradeMatches == {"None", "True", "False"}
SubmissionObjects ==
    [user_id : {1}, workflow_state : WorkflowStates,
     submitted_at : OptionalTimestamps, graded_at : OptionalTimestamps,
     score : Scores, grade_matches_current_submission : GradeMatches]
SubmissionFacts == {NoSubmission} \cup {<<s>> : s \in SubmissionObjects}

CellStart == HoursPerDay
CellDues == {Zulu(HoursPerDay + 2), IsoTs(2 * HoursPerDay - 2, -4)}
CellSteps == {1, HoursPerDay, GraceHours}

c_due_utc == fromisoformat(c_due).value
CellEnd == c_due_utc + GraceHours + CellTail

InitBatchIdle ==
    /\ raw_input = <<>>
    /\ pc = "idle"
    /\ clock = 0
    /\ idx = 0
    /\ resumen = <<>>
    /\ st_errors = <<>>
    /\ st_warnings = <<>>
    /\ course_info = <<>>
    /\ sub_account_info = <<>>
    /\ students = <<>>
    /\ assignments = <<>>
    /\ k = 0
    /\ now_utc = 0
    /\ now_local_date = 0
    /\ processed_assignments = <<>>
    /\ asignaciones_info = <<>>
    /\ results = <<>>
    /\ ret = <<>>

InitCell ==
    /\ InitBatchIdle
    /\ c_now = CellStart
    /\ c_due \in CellDues
    /\ c_sub \in SubmissionFacts
    /\ c_label = ""
    /\ c_info = <<>>

\* the cell and the timeline row as procesar_curso computes them at `now`
CellAt(now, sub) ==
    /\ c_label' = text_celda(now, c_due_utc, deadline_of(c_due_utc), sub)
    /\ c_info' = <<timeline_row("T", now, date(astimezone(now)), c_due_utc)>>

ClassifyCell ==
    /\ c_label = ""
    /\ CellAt(c_now, c_sub)
    /\ UNCHANGED <<c_now, c_due, c_sub, batchVars>>

\* the same cell looked at again at a later instant
AdvanceNow ==
    /\ c_label # ""
    /\ \E d \in CellSteps :
          /\ c_now + d <= CellEnd
          /\ c_now' = c_now + d
          /\ CellAt(c_now + d, c_sub)
    /\ UNCHANGED <<c_due, c_sub, batchVars>>

\* the teacher grades: Canvas sets graded_at (and possibly a score)
GradeCell ==
    /\ c_label # ""
    /\ c_sub # NoSubmission
    /\ c_sub[1].graded_at = "None"
    /\ \E sc \in Scores, gm \in GradeMatches :
          /\ c_sub' = <<[c_sub[1] EXCEPT !.graded_at = "2024-01-05T10:00:00Z",
                                         !.score = sc,
                                         !.grade_matches_current_submission = gm]>>
          /\ CellAt(c_now, c_sub')
    /\ UNCHANGED <<c_now, c_due, batchVars>>

NextCell == ClassifyCell \/ AdvanceNow \/ GradeCell

SpecCell == InitCell /\ [][NextCell]_vars

-----------------------------------------------------------------------------
(* The Canvas server, as the handler sees it: what each GET can answer.     *)

ClockStart == GraceHours + HoursPerDay + 2
MaxClock == ClockStart + MaxElapsed

CourseIds == {"111", "222", "333", "444", "555", "bad"}

\* a response: the status of the first page and the drained, joined pages
Ok(body) == [status |-> 200, body |-> body]
NotFound == [status |-> 404, body |-> <<>>]
ServerError == [status |-> 500, body |-> <<>>]

\* GET /courses/{cid}
CourseResponses(cid) ==
    {ServerError} \cup
    (IF cid = "bad"
     THEN {NotFound}
     ELSE {Ok([id |-> cid, name |-> "Curso " \o cid, course_code |-> "C" \o cid,
               account_id |-> "acc" \o cid])})

\* GET /accounts/{account_id}
AccountResponses(account_id) ==
    {ServerError, NotFound, Ok([id |-> account_id, name |-> "Diplomado " \o account_id])}

Enrollment(sid, uname) == [user_id |-> sid, has_name |-> TRUE, name |-> uname]
Unnamed(sid) == [user_id |-> sid, has_name |-> FALSE, name |-> ""]

\* GET /courses/{cid}/enrollments?type[]=StudentEnrollment
StudentEnrollments(cid) ==
    CASE cid = "111" -> <<Enrollment(1, "Ana"), Enrollment(2, "Luis")>>
      [] cid = "222" -> <<Enrollment(1, "Ana"), Enrollment(2, "Ana")>>
      [] cid = "333" -> <<>>
      [] cid = "444" -> <<Enrollment(1, "Ana"), Unnamed(2), Enrollment(1, "Ana M.")>>
      [] cid = "555" -> <<Enrollment(2, "Luis")>>
      [] OTHER -> <<>>

StudentResponses(cid) == {ServerError, Ok(StudentEnrollments(cid))}

Assignment(id, name, due_at) == [id |-> id, name |-> name, due_at |-> due_at]

\* GET /courses/{cid}/assignments
AssignmentList(cid) ==
    CASE cid = "111" -> <<Assignment(11, "T1", Zulu(ClockStart - GraceHours + 1)),
                          Assignment(12, "T2", NullTs),
                          Assignment(13, "T3", Zulu(ClockStart + 1))>>
      [] cid = "222" -> <<Assignment(21, "Tarea", Zulu(ClockStart - GraceHours - HoursPerDay)),
                          Assignment(22, "Tarea", IsoTs(ClockStart - HoursPerDay, -4))>>
      [] cid = "444" -> <<Assignment(41, "U1", Zulu(ClockStart - GraceHours - 3 * HoursPerDay)),
                          Assignment(42, "U2", BadTs),
                          Assignment(43, "U3", Zulu(ClockStart - HoursPerDay))>>
      [] cid = "555" -> <<Assignment(51, "V1", NullTs)>>
      [] OTHER -> <<>>

AssignmentResponses(cid) == {ServerError, NotFound, Ok(AssignmentList(cid))}

Submission(sid, w_state, submitted_at, graded_at, score, matches) ==
    [user_id |-> sid, workflow_state |-> w_state, submitted_at |-> submitted_at,
     graded_at |-> graded_at, score |-> score,
     grade_matches_current_submission |-> matches]

\* GET /courses/{cid}/assignments/{asg_id}/submissions: the gradebook states
\* the server may be in when asked
SubmissionLists ==
    { <<>>,
      <<Submission(1, "submitted", "2024-01-05T10:00:00Z", "None", <<>>, "None"),
        Submission(2, "graded", "None", "2024-01-05T10:00:00Z", <<179>>, "True")>>,
      <<Submission(1, "graded", "2024-01-05T10:00:00Z", "2024-01-05T10:00:00Z", <<>>, "None"),
        Submission(2, "unsubmitted", "None", "None", <<>>, "None"),
        Submission(2, "graded", "2024-01-05T10:00:00Z", "2024-01-05T10:00:00Z", <<-5>>, "False")>> }

SubmissionResponses == {ServerError} \cup {Ok(l) : l \in SubmissionLists}

RoleHolder(name, login_id) == [name |-> name, login_id |-> login_id]

\* GET /courses/{cid}/enrollments?role[]=...
RoleResponses(cid, role) ==
    {ServerError} \cup
    (CASE role = "TeacherEnrollment" ->
            IF cid = "222"
            THEN {Ok(<<RoleHolder("Prof A", "a@u.cl"), RoleHolder("Prof B", "b@u.cl")>>)}
            ELSE {Ok(<<RoleHolder("Prof A", "a@u.cl")>>)}
       [] role = "Tutor social" -> {Ok(<<>>)}
       [] OTHER -> {NotFound})

-----------------------------------------------------------------------------
(* Helpers of the handler *)

\* lines 23-43: 404 on the first page gives None, any other HTTP error status
\* raises (raise_for_status), otherwise the decoded body; a list is returned
\* only once every next page has been fetched, and a failing page raises too
fetch_canvas_api(response) ==
    IF response.status = 404
    THEN [raised |-> FALSE, none |-> TRUE, data |-> <<>>]
    ELSE IF response.status # 200
    THEN [raised |-> TRUE, none |-> FALSE, data |-> <<>>]
    ELSE [raised |-> FALSE, none |-> FALSE, data |-> response.body]

\* d[key] = value on a dict (a function on its keys)
Put(d, key, value) ==
    [x \in (DOMAIN d) \cup {key} |-> IF x = key THEN value ELSE d[x]]

EmptyDict == <<>>

\* lines 97-101: the ordered dict user_id -> name, as a list of its items
RECURSIVE students_of(_)
students_of(enrollments) ==
    IF enrollments = <<>>
    THEN <<>>
    ELSE LET n == Len(enrollments)
             e == enrollments[n]
             sid == e.user_id
             uname == IF e.has_name THEN e.name ELSE "User " \o ToString(sid)
             before == students_of(SubSeq(enrollments, 1, n - 1))
         IN  IF \E i \in 1..Len(before) : before[i].sid = sid
             THEN [i \in 1..Len(before) |->
                     IF before[i].sid = sid
                     THEN [sid |-> sid, uname |-> uname] ELSE before[i]]
             ELSE Append(before, [sid |-> sid, uname |-> uname])

\* line 170: {s.get("user_id"): s for s in submissions}, then .get(sid)
RECURSIVE subs_map_get(_, _)
subs_map_get(submissions, sid) ==
    IF submissions = <<>>
    THEN NoSubmission
    ELSE LET n == Len(submissions)
         IN  IF submissions[n].user_id = sid
             THEN <<submissions[n]>>
             ELSE subs_map_get(SubSeq(submissions, 1, n - 1), sid)

\* lines 219-222: DataFrame.from_dict({students[sid]: data ...}, orient="index");
\* a later student with the same display name replaces the earlier row
DataFrame(studs, res) ==
    [uname \in {studs[i].uname : i \in 1..Len(studs)} |->
        LET last == CHOOSE i \in 1..Len(studs) :
                        /\ studs[i].uname = uname
                        /\ \A j \in 1..Len(studs) : studs[j].uname = uname => j <= i
        IN  res[studs[last].sid]]

\* the (row, column) positions of a DataFrame
Cells(df) == {<<r, c>> : r \in DOMAIN df, c \in UNION {DOMAIN df[x] : x \in DOMAIN df}}

\* df.empty
empty(df) == Cells(df) = {}

\* str.lower() on the texts a cell can hold (digits and signs have no case)
lower(v) ==
    CASE v = "No iniciado" -> "no iniciado"
      [] v = "Calificada pero sin nota" -> "calificada pero sin nota"
      [] v = "Nota no coincide" -> "nota no coincide"
      [] v = "Entregado y en plazo" -> "entregado y en plazo"
      [] v = "No entregado pero en plazo" -> "no entregado pero en plazo"
      [] v = "No calificado en plazo" -> "no calificado en plazo"
      [] v = "No entrego nada" -> "no entrego nada"
      [] OTHER -> v

\* fuera_de_plazo with the grade mismatch forgotten
fuera_de_plazo_sin_mismatch ==
    {"no calificado en plazo", "no entrego nada", "calificada pero sin nota"}

\* lines 378 and 394: the texts counted as outside the grading window
fuera_de_plazo ==
    {"no calificado en plazo", "no entrego nada", "nota no coincide",
     "calificada pero sin nota"}

\* lines 376-379: for val in df.values.flatten(): if val.lower() in [...]
RECURSIVE outside_plazo_count(_, _)
outside_plazo_count(df, cells) ==
    IF cells = {}
    THEN 0
    ELSE LET p == CHOOSE q \in cells : TRUE
         IN  (IF lower(df[p[1]][p[2]]) \in fuera_de_plazo THEN 1 ELSE 0)
             + outside_plazo_count(df, cells \ {p})

\* lines 388-399: the rollup status of a course
estado_curso(asg_ok, df) ==
    IF asg_ok = <<>>
    THEN "No configurado"
    ELSE IF \E p \in Cells(df) : lower(df[p[1]][p[2]]) \in fuera_de_plazo
    THEN "Hay cosas mal"
    ELSE "Todo Bien"

\* ", ".join(names)
RECURSIVE join(_)
join(names) ==
    IF Len(names) = 0 THEN ""
    ELSE IF Len(names) = 1 THEN names[1]
    ELSE names[1] \o ", " \o join(Tail(names))

\* lines 230-239, 246-252, 259-268: the names (or mails) of a role's holders
holders(fetched, field) ==
    IF fetched.none \/ fetched.data = <<>>
    THEN <<"No existe">>
    ELSE [i \in 1..Len(fetched.data) |-> fetched.data[i][field]]

\* lines 322-334
fila_no_encontrado ==
    [Estado |-> "Inexistente", Errores |-> "No encontrado", Curso |-> "No encontrado",
     Nombre |-> "No encontrado", Diplomado |-> "No encontrado",
     Profesor |-> "No encontrado", Email_Profesor |-> "No encontrado",
     Director |-> "No encontrado", Email_Director |-> "No encontrado",
     Tutor |-> "No encontrado", Color |-> "red"]

-----------------------------------------------------------------------------
(* The handler: if st.button("Revisar!!") ..., one action per blocking step *)

InputSequences == UNION {[1..n -> CourseIds] : n \in 0..MaxCourses}

Init ==
    /\ raw_input \in InputSequences
    /\ pc = "idle"
    /\ clock = ClockStart
    /\ idx = 0
    /\ resumen = <<>>
    /\ st_errors = <<>>
    /\ st_warnings = <<>>
    /\ course_info = <<>>
    /\ sub_account_info = <<>>
    /\ students = <<>>
    /\ assignments = <<>>
    /\ k = 0
    /\ now_utc = 0
    /\ now_local_date = 0
    /\ processed_assignments = <<>>
    /\ asignaciones_info = <<>>
    /\ results = <<>>
    /\ ret = <<>>
    /\ c_now = 0
    /\ c_due = NullTs
    /\ c_sub = NoSubmission
    /\ c_label = ""
    /\ c_info = <<>>

\* the course id of the running iteration of `for cid in course_ids`
cid == raw_input[idx]

\* a blocking GET: the clock moves on while the handler waits
Elapse(fetches) ==
    \E d \in 0..(fetches * MaxDelay) :
        /\ clock + d <= MaxClock
        /\ clock' = clock + d

\* the locals of procesar_curso and of the loop body are dropped
DropLocals ==
    /\ course_info' = <<>>
    /\ sub_account_info' = <<>>
    /\ students' = <<>>
    /\ assignments' = <<>>
    /\ k' = 0
    /\ now_utc' = 0
    /\ now_local_date' = 0
    /\ processed_assignments' = <<>>
    /\ asignaciones_info' = <<>>
    /\ results' = <<>>
    /\ ret' = <<>>

\* line 316: the for statement takes the next course id, or the loop ends
NextCourse ==
    /\ idx' = idx + 1
    /\ pc' = IF idx + 1 > Len(raw_input) THEN "end" ELSE "course"

\* lines 416-417: except Exception as e: st.error(...); the loop goes on
Except(e) ==
    /\ st_errors' = Append(st_errors, [idx |-> idx, curso |-> cid, e |-> e])
    /\ NextCourse
    /\ DropLocals
    /\ UNCHANGED <<raw_input, resumen, st_warnings>>

\* an exception raised outside the try block: the script run ends there
Uncaught ==
    /\ pc' = "crashed"
    /\ UNCHANGED <<raw_input, idx, resumen, st_errors, st_warnings, course_info,
                   sub_account_info, students, assignments, k, now_utc,
                   now_local_date, processed_assignments, asignaciones_info,
                   results, ret>>

\* lines 309-315: the button is pressed and the input is split into ids
Click ==
    /\ pc = "idle"
    /\ IF raw_input = <<>>
       THEN /\ st_errors' = Append(st_errors,
                                   [idx |-> 0, curso |-> "", e |-> "sin ids"])
            /\ pc' = "done"
            /\ idx' = idx
       ELSE /\ st_errors' = st_errors
            /\ pc' = "course"
            /\ idx' = 1
    /\ UNCHANGED <<raw_input, clock, resumen, st_warnings, course_info,
                   sub_account_info, students, assignments, k, now_utc,
                   now_local_date, processed_assignments, asignaciones_info,
                   results, ret, cellVars>>

\* lines 317-335: GET /courses/{cid}; a missing course gets its summary row
FetchCourse ==
    /\ pc = "course"
    /\ Elapse(1)
    /\ \E response \in CourseResponses(cid) :
          LET fetched == fetch_canvas_api(response)
          IN  IF fetched.raised
              THEN Uncaught
              ELSE IF fetched.none
              THEN /\ st_errors' = Append(st_errors,
                          [idx |-> idx, curso |-> cid, e |-> "no encontrado"])
                   /\ resumen' = Append(resumen, fila_no_encontrado)
                   /\ NextCourse
                   /\ DropLocals
                   /\ UNCHANGED <<raw_input, st_warnings>>
              ELSE /\ course_info' = fetched.data
                   /\ pc' = "account"
                   /\ UNCHANGED <<raw_input, idx, resumen, st_errors, st_warnings,
                                  sub_account_info, students, assignments, k,
                                  now_utc, now_local_date, processed_assignments,
                                  asignaciones_info, results, ret>>
    /\ UNCHANGED cellVars

\* lines 336-347: GET /accounts/{account_id}, then the two headings, which
\* read sub_account_info.get('id')
FetchAccount ==
    /\ pc = "account"
    /\ Elapse(1)
    /\ \E response \in AccountResponses(course_info.account_id) :
          LET fetched == fetch_canvas_api(response)
          IN  IF fetched.raised \/ fetched.none
              THEN Uncaught
              ELSE /\ sub_account_info' = fetched.data
                   /\ pc' = "students"
                   /\ UNCHANGED <<raw_input, idx, resumen, st_errors, st_warnings,
                                  course_info, students, assignments, k, now_utc,
                                  now_local_date, processed_assignments,
                                  asignaciones_info, results, ret>>
    /\ UNCHANGED cellVars

\* lines 93-104 and 113: the roster; an empty one returns None, [], {}
FetchStudents ==
    /\ pc = "students"
    /\ Elapse(1)
    /\ \E response \in StudentResponses(cid) :
          LET fetched == fetch_canvas_api(response)
              studs == students_of(fetched.data)
          IN  IF fetched.raised
              THEN Except("HTTPError")
              ELSE IF fetched.none
              THEN Except("TypeError")
              ELSE IF studs = <<>>
              THEN /\ st_warnings' = Append(st_warnings,
                          [idx |-> idx, curso |-> cid, msg |-> "sin estudiantes"])
                   /\ ret' = [df_is_none |-> TRUE, df |-> EmptyDict,
                              asg_ok |-> <<>>, info_curso |-> EmptyDict]
                   /\ pc' = "caller"
                   /\ UNCHANGED <<raw_input, idx, resumen, st_errors, course_info,
                                  sub_account_info, students, assignments, k,
                                  now_utc, now_local_date, processed_assignments,
                                  asignaciones_info, results>>
              ELSE /\ students' = studs
                   /\ results' = [sid \in {studs[i].sid : i \in 1..Len(studs)}
                                     |-> EmptyDict]
                   /\ pc' = "assignments"
                   /\ UNCHANGED <<raw_input, idx, resumen, st_errors, st_warnings,
                                  course_info, sub_account_info, assignments, k,
                                  now_utc, now_local_date, processed_assignments,
                                  asignaciones_info, ret>>
    /\ UNCHANGED cellVars

\* lines 107-120: the assignment list, then the reading of the clock: now_utc
\* (line 115) and now_local_date (line 118) are read back to back, with no
\* blocking call between them, so both see the same hour
FetchAssignments ==
    /\ pc = "assignments"
    /\ Elapse(1)
    /\ \E response \in AssignmentResponses(cid) :
          LET fetched == fetch_canvas_api(response)
          IN  IF fetched.raised
              THEN Except("HTTPError")
              ELSE IF fetched.none
              THEN Except("TypeError")
              ELSE /\ assignments' = fetched.data
                   /\ now_utc' = clock'
                   /\ now_local_date' = date(astimezone(clock'))
                   /\ k' = 1
                   /\ pc' = IF fetched.data = <<>> THEN "roles" ELSE "loop"
                   /\ UNCHANGED <<raw_input, idx, resumen, st_errors, st_warnings,
                                  course_info, sub_account_info, students,
                                  processed_assignments, asignaciones_info,
                                  results, ret>>
    /\ UNCHANGED cellVars


\* lines 172-203: the column of one assignment, written into every student's row
with_column(res, asg_name, now, due_date_utc, submissions) ==
    [sid \in DOMAIN res |->
        Put(res[sid], asg_name,
            text_celda(now, due_date_utc, deadline_of(due_date_utc),
                       subs_map_get(submissions, sid)))]

\* lines 120-203: one iteration of `for assignment in assignments`, with the
\* instant and the local date the iteration classifies against
AssignmentStep(now, local_date) ==
    LET assignment == assignments[k]
        asg_name == assignment.name
        due_at == assignment.due_at
        parsed == fromisoformat(due_at)
        more == IF k + 1 > Len(assignments) THEN "roles" ELSE "loop"
    IN  IF due_at.kind = "null"
        THEN /\ st_warnings' = Append(st_warnings,
                    [idx |-> idx, curso |-> cid, msg |-> "sin fecha: " \o asg_name])
             /\ k' = k + 1
             /\ pc' = more
             /\ clock' = clock
             /\ UNCHANGED <<raw_input, idx, resumen, st_errors, course_info,
                            sub_account_info, students, assignments, now_utc,
                            now_local_date, processed_assignments,
                            asignaciones_info, results, ret>>
        ELSE IF parsed.raised
        THEN /\ clock' = clock
             /\ Except("ValueError")
        ELSE /\ Elapse(1)
             /\ \E response \in SubmissionResponses :
                   LET fetched == fetch_canvas_api(response)
                   IN  IF fetched.raised
                       THEN Except("HTTPError")
                       ELSE IF fetched.none
                       THEN Except("TypeError")
                       ELSE /\ asignaciones_info' = Append(asignaciones_info,
                                   timeline_row(asg_name, now, local_date, parsed.value))
                            /\ processed_assignments' =
                                   Append(processed_assignments, assignment)
                            /\ results' = with_column(results, asg_name, now,
                                                      parsed.value, fetched.data)
                            /\ k' = k + 1
                            /\ pc' = more
                            /\ UNCHANGED <<raw_input, idx, resumen, st_errors,
                                           st_warnings, course_info, sub_account_info,
                                           students, assignments, now_utc,
                                           now_local_date, ret>>

\* ProcessAssignment with the clock read again in every iteration
ProcessAssignment_resampling ==
    /\ pc = "loop"
    /\ AssignmentStep(clock, date(astimezone(clock)))
    /\ UNCHANGED cellVars

\* the loop body uses now_utc and now_local_date, read once before the loop
ProcessAssignment ==
    /\ pc = "loop"
    /\ AssignmentStep(now_utc, now_local_date)
    /\ UNCHANGED cellVars

\* lines 205-279: the DataFrame and the teacher, tutor and director fetches
RoleInfo ==
    /\ pc = "roles"
    /\ Elapse(3)
    /\ \E teacher_r \in RoleResponses(cid, "TeacherEnrollment"),
          tutor_r \in RoleResponses(cid, "Tutor social"),
          director_r \in RoleResponses(cid, "Director") :
          LET teacher_data == fetch_canvas_api(teacher_r)
              tutor_data == fetch_canvas_api(tutor_r)
              director_data == fetch_canvas_api(director_r)
              info_curso ==
                  [Profesor |-> join(holders(teacher_data, "name")),
                   Correo_Profesor |-> join(holders(teacher_data, "login_id")),
                   Tutor |-> join(holders(tutor_data, "login_id")),
                   Director |-> join(holders(director_data, "name")),
                   Correo_Director |-> join(holders(director_data, "login_id"))]
          IN  IF teacher_data.raised \/ tutor_data.raised \/ director_data.raised
              THEN Except("HTTPError")
              ELSE /\ ret' = [df_is_none |-> FALSE,
                              df |-> DataFrame(students, results),
                              asg_ok |-> processed_assignments,
                              info_curso |-> info_curso]
                   /\ pc' = "caller"
                   /\ UNCHANGED <<raw_input, idx, resumen, st_errors, st_warnings,
                                  course_info, sub_account_info, students,
                                  assignments, k, now_utc, now_local_date,
                                  processed_assignments, asignaciones_info, results>>
    /\ UNCHANGED cellVars

\* lines 349-414: back in the handler with df, asg_ok, info_curso
Caller ==
    /\ pc = "caller"
    /\ clock' = clock
    /\ IF "Profesor" \notin DOMAIN ret.info_curso
       THEN Except("KeyError")
       ELSE LET df == ret.df
                count == IF ~ret.df_is_none /\ ~empty(df)
                         THEN outside_plazo_count(df, Cells(df))
                         ELSE 0
            IN  /\ resumen' = Append(resumen,
                       [Estado |-> estado_curso(ret.asg_ok, df),
                        Errores |-> count,
                        Curso |-> cid,
                        Nombre |-> course_info.name,
                        Diplomado |-> sub_account_info.name,
                        Profesor |-> ret.info_curso.Profesor,
                        Email_Profesor |-> ret.info_curso.Correo_Profesor,
                        Director |-> ret.info_curso.Director,
                        Email_Director |-> ret.info_curso.Correo_Director,
                        Tutor |-> ret.info_curso.Tutor,
                        Color |-> CASE estado_curso(ret.asg_ok, df) = "No configurado"
                                         -> "orange"
                                    [] estado_curso(ret.asg_ok, df) = "Hay cosas mal"
                                         -> "red"
                                    [] OTHER -> "lightgreen"])
                /\ NextCourse
                /\ DropLocals
                /\ UNCHANGED <<raw_input, st_errors, st_warnings>>
    /\ UNCHANGED cellVars

\* lines 419-436: the loop is over; the summary table and the elapsed time
Finish ==
    /\ pc = "end"
    /\ pc' = "done"
    /\ UNCHANGED <<raw_input, clock, idx, resumen, st_errors, st_warnings,
                   course_info, sub_account_info, students, assignments, k,
                   now_utc, now_local_date, processed_assignments,
                   asignaciones_info, results, ret, cellVars>>

Next ==
    \/ Click
    \/ FetchCourse
    \/ FetchAccount
    \/ FetchStudents
    \/ FetchAssignments
    \/ ProcessAssignment
    \/ RoleInfo
    \/ Caller
    \/ Finish

Spec == Init /\ [][Next]_vars

-----------------------------------------------------------------------------
(* Properties of the classifier (checked under SpecCell) *)

NOT_STARTED == "No iniciado"
GRADED_NO_SCORE == "Calificada pero sin nota"
GRADE_MISMATCH == "Nota no coincide"
DELIVERED_ON_TIME == "Entregado y en plazo"
PENDING_ON_TIME == "No entregado pero en plazo"
UNGRADED_LATE == "No calificado en plazo"
NOT_SUBMITTED == "No entrego nada"
FixedLabels == {NOT_STARTED, GRADED_NO_SCORE, GRADE_MISMATCH, DELIVERED_ON_TIME,
                PENDING_ON_TIME, UNGRADED_LATE, NOT_SUBMITTED}
ScoreValues == -20..20
\* GRADED(v): the score, truncated toward zero, written as an integer
GRADED(v) == ToString(v)
IsTruncationOf(v, tenths) ==
    IF tenths >= 0
    THEN 10 * v <= tenths /\ tenths < 10 * v + 10
    ELSE 10 * v >= tenths /\ tenths > 10 * v - 10

Exists(sub) == sub # <<>>
IsDelivered(sub) ==
    Exists(sub) /\ (sub[1].workflow_state = "submitted" \/ sub[1].submitted_at # "None")
IsGraded(sub) == Exists(sub) /\ sub[1].graded_at # "None"
Deadline(due) == due + 9 * 24

\* the priority table of the Submission Classifier, rule by rule
FollowsTable(label, now, due, sub) ==
    /\ now < due => label = NOT_STARTED
    /\ (now >= due /\ IsGraded(sub) /\ sub[1].score = <<>>)
          => label = GRADED_NO_SCORE
    /\ (now >= due /\ IsGraded(sub) /\ sub[1].score # <<>>
            /\ sub[1].grade_matches_current_submission = "False")
          => label = GRADE_MISMATCH
    /\ (now >= due /\ IsGraded(sub) /\ sub[1].score # <<>>
            /\ sub[1].grade_matches_current_submission # "False")
          => \E v \in ScoreValues :
                IsTruncationOf(v, sub[1].score[1]) /\ label = GRADED(v)
    /\ (now >= due /\ ~IsGraded(sub) /\ now <= Deadline(due))
          => label = (IF IsDelivered(sub) THEN DELIVERED_ON_TIME ELSE PENDING_ON_TIME)
    /\ (now >= due /\ ~IsGraded(sub) /\ now > Deadline(due))
          => label = (IF IsDelivered(sub) THEN UNGRADED_LATE ELSE NOT_SUBMITTED)

\* C1: every cell gets exactly the label of the first matching rule of the
\* priority table (not started, graded without score, grade mismatch, graded
\* with the truncated score, on time, late), and always one of the 8 labels.
C1_FirstMatchingRule ==
    c_label # "" =>
        /\ FollowsTable(c_label, c_now, c_due_utc, c_sub)
        /\ c_label \in FixedLabels \cup {GRADED(v) : v \in ScoreValues}

\* a graded cell whose negative score -0.5 was truncated toward zero
C1_Witness ==
    /\ c_label = "0"
    /\ IsGraded(c_sub)
    /\ c_sub[1].score = <<-5>>
    /\ c_now > Deadline(c_due_utc)

\* the stage of a label on the way not started -> on time -> late
Stage(label) ==
    CASE label = NOT_STARTED -> 0
      [] label \in {PENDING_ON_TIME, DELIVERED_ON_TIME} -> 1
      [] label \in {NOT_SUBMITTED, UNGRADED_LATE} -> 2
      [] OTHER -> 3

StageMatchesClock ==
    c_label # "" =>
        IF IsGraded(c_sub)
        THEN c_now >= c_due_utc =>
                c_label \in {GRADED_NO_SCORE, GRADE_MISMATCH}
                            \cup {GRADED(v) : v \in ScoreValues}
        ELSE /\ Stage(c_label) = 0 <=> c_now < c_due_utc
             /\ Stage(c_label) = 1 <=> (c_due_utc <= c_now /\ c_now <= Deadline(c_due_utc))
             /\ Stage(c_label) = 2 <=> c_now > Deadline(c_due_utc)

NeverBack ==
    (c_label # "" /\ c_sub' = c_sub /\ c_due' = c_due /\ ~IsGraded(c_sub)
        /\ c_now' >= c_now)
       => Stage(c_label') >= Stage(c_label)

\* C8: with the facts fixed and no grade, the label is NOT_STARTED exactly
\* before due, an on-time label exactly from due to the deadline, a late label
\* exactly after it, and it never moves back as now advances; a graded cell
\* has a graded label at any now >= due.
C8_Monotone == [](StageMatchesClock) /\ [][NeverBack]_vars

\* an ungraded, delivered cell that has gone through to the late stage
C8_Witness ==
    /\ c_label = UNGRADED_LATE
    /\ ~IsGraded(c_sub)
    /\ c_now = Deadline(c_due_utc) + 1

\* C10: the timeline row depends only on now against due and due + 9 days:
\* NOT_STARTED iff now < due, IN_PROGRESS iff due <= now <= deadline, OVERDUE
\* iff now > deadline; days late is max(0, local date of now - local date of
\* the deadline) when OVERDUE and "not applicable" otherwise.
C10_Timeline ==
    c_info # <<>> =>
        LET row == c_info[1]
            late == date(astimezone(c_now)) - date(astimezone(Deadline(c_due_utc)))
        IN  /\ row.Estado = "No iniciado" <=> c_now < c_due_utc
            /\ row.Estado = "En plazo" <=>
                   (c_due_utc <= c_now /\ c_now <= Deadline(c_due_utc))
            /\ row.Estado = "Plazo vencido" <=> c_now > Deadline(c_due_utc)
            /\ row.Estado \in {"No iniciado", "En plazo", "Plazo vencido"}
            /\ row.Dias_de_atraso =
                   (IF row.Estado = "Plazo vencido"
                    THEN ToString(IF late > 0 THEN late ELSE 0)
                    ELSE "No aplica")

\* an overdue assignment, one local day past its deadline
C10_Witness ==
    /\ c_info # <<>>
    /\ c_info[1].Estado = "Plazo vencido"
    /\ c_info[1].Dias_de_atraso = "1"

-----------------------------------------------------------------------------
(* Properties of the batch handler (checked under Spec) *)

\* the batch has stopped: it ran to its end or an exception ended the script
Stopped == pc \in {"done", "crashed"}

\* C2: whatever fails for one course (course or parent account not found, an
\* HTTP error on any fetch, an exception in procesar_curso), the batch is not
\* aborted: every later course id is still taken up by the loop.
C2_FailureNeverAbortsBatch ==
    (Stopped /\ raw_input # <<>>) => (pc = "done" /\ idx > Len(raw_input))

\* C3: when the loop is over, resumen has one row per input course id, in
\* input order, errored and missing courses included.
C3_OneRowPerInputId ==
    (pc = "done" /\ raw_input # <<>>) =>
        /\ Len(resumen) = Len(raw_input)
        /\ \A i \in 1..Len(resumen) :
              resumen[i].Curso \in {raw_input[i], "No encontrado"}

\* the due instant of the i-th processed assignment
due_of(i) == fromisoformat(processed_assignments[i].due_at).value

\* the submission facts a student can have in some gradebook state
PossibleFacts(sid) == {subs_map_get(l, sid) : l \in SubmissionLists}

\* every timeline row and every cell written so far is the classification
\* against the instant `now` (local date `local_date`)
ClassifiedAgainst(now, local_date) ==
    /\ \A i \in 1..Len(asignaciones_info) :
          asignaciones_info[i] =
              timeline_row(processed_assignments[i].name, now, local_date, due_of(i))
    /\ \A sid \in DOMAIN results : \A col \in DOMAIN results[sid] :
          \E i \in 1..Len(processed_assignments) :
             /\ processed_assignments[i].name = col
             /\ \E sub \in PossibleFacts(sid) :
                   results[sid][col] = text_celda(now, due_of(i), Deadline(due_of(i)), sub)

\* C4 (as claimed): each assignment is classified against the clock value
\* read when that assignment is processed.
C4_NowSampledPerAssignment ==
    [][(pc = "loop" /\ Len(asignaciones_info') = Len(asignaciones_info) + 1)
          => LET i == Len(asignaciones_info')
                 due == fromisoformat(processed_assignments'[i].due_at).value
             IN  asignaciones_info'[i].Estado = estado_info(clock, due, Deadline(due))
       ]_vars

InAssignmentLoop == pc \in {"loop", "roles"}

\* C4 (amended): now is read once per procesar_curso call, before the loop over
\* the assignments; every assignment of the course is classified against that
\* one value, however far the clock has moved on since.
C4_NowSampledOncePerCourse ==
    /\ [](InAssignmentLoop =>
            (now_utc <= clock /\ ClassifiedAgainst(now_utc, now_local_date)))
    /\ [][(InAssignmentLoop /\ InAssignmentLoop') => now_utc' = now_utc]_vars

\* the second assignment processed is still "not started" by the frozen now,
\* although the clock has reached its due instant in the meantime
C4_Witness ==
    /\ InAssignmentLoop
    /\ Len(asignaciones_info) = 2
    /\ now_utc < clock
    /\ asignaciones_info[2].Estado = "No iniciado"
    /\ estado_info(clock, due_of(2), Deadline(due_of(2))) = "En plazo"

\* C5: the matrix procesar_curso returns for a non-empty roster is the full
\* cross product: one row per enrolled student, one column per assignment
\* with a due date, names unique or not.
C5_FullCrossProduct ==
    (pc = "caller" /\ ~ret.df_is_none) =>
        /\ Cardinality(DOMAIN ret.df) = Len(students)
        /\ \A row \in DOMAIN ret.df :
              Cardinality(DOMAIN ret.df[row]) = Len(ret.asg_ok)
        /\ Len(ret.asg_ok) =
              Cardinality({i \in 1..Len(assignments) : assignments[i].due_at.kind # "null"})

NON_COMPLIANT_LABELS == {UNGRADED_LATE, NOT_SUBMITTED, GRADE_MISMATCH, GRADED_NO_SCORE}

NonCompliantCells(df) == {p \in Cells(df) : df[p[1]][p[2]] \in NON_COMPLIANT_LABELS}

RowAdded == pc = "caller" /\ Len(resumen') = Len(resumen) + 1

C7_MalformedDueSkipsOnlyAssignment ==
    \A i \in 1..Len(st_errors) : st_errors[i].e # "ValueError"

\* C9: a course without students gives an empty report and a warning, and no
\* error is raised or reported for it.
C9_EmptyRosterIsNotAnError ==
    \A w \in 1..Len(st_warnings) :
        st_warnings[w].msg = "sin estudiantes" =>
            \A i \in 1..Len(st_errors) : st_errors[i].idx # st_warnings[w].idx

=============================================================================
